---- MODULE Spec2Model ----
(***************************************************************************)
(* AsyncioProxy (python_socks/async_/asyncio/_proxy.py): the connect       *)
(* operation of a proxy client.  One asyncio task runs connect(); it is    *)
(* suspended at three awaits (connect_tcp, connector.connect and           *)
(* stream.close) and woken by the completion of the awaited I/O, by the    *)
(* async_timeout timer, or by a cancel() of the caller.                    *)
(***************************************************************************)
EXTENDS Integers, Sequences, FiniteSets, TLC

VARIABLES self, env, call

vars == <<self, env, call>>

(* ------------------------------ bounds -------------------------------- *)

\* number of connect() calls made on the one AsyncioProxy
NumCalls == 1

\* number of connect() calls in flight together in the concurrent specification
NumConcurrent == 2

\* the connect() calls of the behaviour
Calls == DOMAIN call

(* --------------------------- program constants ------------------------ *)

DEFAULT_TIMEOUT == 60

(* ------------------------------ exceptions ---------------------------- *)

NoExc == [type |-> "none", code |-> 0, msg |-> ""]

CancelledError == [type |-> "CancelledError", code |-> 0, msg |-> ""]

AsyncioTimeoutError == [type |-> "asyncio.TimeoutError", code |-> 0, msg |-> ""]

ReplyError(code) ==
    [type |-> "ReplyError", code |-> code, msg |-> "reply " \o ToString(code)]

\* what connect_tcp can fail with: OSError and its subclasses
DialFailures ==
    { [type |-> "ConnectionRefusedError", code |-> 111, msg |-> "Connect call failed"],
      [type |-> "TimeoutError", code |-> 110, msg |-> "Connection timed out"] }

\* what connector.connect can fail with: a reply of the proxy, or a failure
\* of the socket I/O under the Stream
HandshakeFailures ==
    { ReplyError(1), ReplyError(5),
      [type |-> "ConnectionResetError", code |-> 104, msg |-> "Connection reset by peer"],
      [type |-> "TimeoutError", code |-> 110, msg |-> "Connection timed out"] }

\* isinstance(e, OSError)
IsOSError(e) ==
    \/ e.type \in {"OSError", "ConnectionRefusedError", "ConnectionResetError",
                   "TimeoutError", "ProxyConnectionError"}
    \/ e.type = "asyncio.TimeoutError" /\ env.py >= 311

\* isinstance(e, asyncio.TimeoutError): since Python 3.11 asyncio.TimeoutError
\* is the builtin TimeoutError
IsAsyncioTimeoutError(e) ==
    \/ e.type = "asyncio.TimeoutError"
    \/ e.type = "TimeoutError" /\ env.py >= 311

(* --------------------------- the environment -------------------------- *)

PyVersions == {37, 38, 311}

LoopKinds == {"SelectorEventLoop", "ProactorEventLoop", "uvloop.Loop"}

ProxyTypes == {"SOCKS5", "invalid"}

NoSocket == [origin |-> "none", owner |-> 0]

\* the arguments connect() is called with: timeout (<<>> is None) and _socket
TimeoutArgs == {<<>>, <<-1>>, <<0>>, <<5>>}

SocketArgs(c) == {NoSocket, [origin |-> "supplied", owner |-> c]}

(* ------------------------- AsyncioProxy.__init__ ---------------------- *)

NewProxy(ptype) ==
    [ loop       |-> "loop",
      proxy_type |-> ptype,
      proxy_host |-> "proxy.example",
      proxy_port |-> 1080,
      password   |-> "pw",
      username   |-> "user",
      rdns       |-> TRUE,
      resolver   |-> "resolver1" ]

IdleCall ==
    [ pc          |-> "idle",
      timeoutArg  |-> <<>>,
      timeout     |-> 0,
      tstate      |-> "init",
      timerStarts |-> 0,
      mustCancel  |-> FALSE,
      socket      |-> NoSocket,
      stream      |-> "none",
      pending     |-> NoExc,
      dials       |-> 0,
      dialTarget  |-> <<>>,
      handshakes  |-> 0,
      resolver    |-> "none",
      closes      |-> 0,
      returned    |-> NoSocket,
      raised      |-> NoExc,
      supplied    |-> FALSE,
      callerCancelled |-> FALSE,
      cancelledIn |-> "none",
      cancelAfterExpiry |-> FALSE,
      expiredIn   |-> "none",
      dialExc     |-> NoExc,
      hsExc       |-> NoExc ]

Init ==
    /\ env \in [py : PyVersions, loop : LoopKinds, timeouts : {TimeoutArgs},
                dialFailures : {DialFailures},
                handshakeFailures : {HandshakeFailures}]
    /\ self \in {NewProxy(t) : t \in ProxyTypes}
    /\ call = [c \in 1..NumCalls |-> IdleCall]

\* several connect() calls on one AsyncioProxy of a valid proxy type, every
\* caller passing the same timeout, the proxy refusing the dial or rejecting
\* or resetting the handshake
InitConcurrent ==
    /\ env \in [py : {38}, loop : {"SelectorEventLoop"},
                timeouts : {{<<5>>}},
                dialFailures : {{e \in DialFailures : e.code = 111}},
                handshakeFailures :
                    {{e \in HandshakeFailures : e.code \in {5, 104}}}]
    /\ self = NewProxy("SOCKS5")
    /\ call = [c \in 1..NumConcurrent |-> IdleCall]


(* ------------------- errors raised by AsyncioProxy -------------------- *)

\* 'Could not connect to proxy {}:{} [{}]'.format(host, port, e.strerror)
CouldNotConnectMsg(host, port, strerror) ==
    "Could not connect to proxy " \o host \o ":" \o ToString(port)
        \o " [" \o strerror \o "]"

ProxyConnectionError(errno, msg) ==
    [type |-> "ProxyConnectionError", code |-> errno, msg |-> msg]

\* f'Proxy connection timed out: {timeout}'
ProxyTimeoutError(timeout) ==
    [type |-> "ProxyTimeoutError", code |-> 0,
     msg |-> "Proxy connection timed out: " \o ToString(timeout)]

\* mutant: the reply code is not passed on
ProxyErrorWithoutCode(e, error_code) ==
    [type |-> "ProxyError", code |-> 0, msg |-> e.msg]

\* ProxyError(e, error_code=e.error_code)
ProxyError(e, error_code) ==
    [type |-> "ProxyError", code |-> error_code, msg |-> e.msg]

(* ------------------- AsyncioProxy._can_be_closed_safely --------------- *)

is_proactor_event_loop == env.loop = "ProactorEventLoop"

is_uvloop_event_loop == env.loop = "uvloop.Loop"

\* mutant: only the version of Python is looked at, not the kind of the loop
closed_safely_by_version_only == env.py >= 38

can_be_closed_safely ==
    env.py >= 38 \/ is_proactor_event_loop \/ is_uvloop_event_loop

(* ------------------------- AsyncioProxy.connect ----------------------- *)

\* mutant: "if not timeout" in place of "if timeout is None"
EffectiveTimeoutIfFalsy(timeoutArg) ==
    IF timeoutArg = <<>> \/ timeoutArg = <<0>>
    THEN DEFAULT_TIMEOUT
    ELSE timeoutArg[1]

\* if timeout is None: timeout = DEFAULT_TIMEOUT
EffectiveTimeout(timeoutArg) ==
    IF timeoutArg = <<>> THEN DEFAULT_TIMEOUT ELSE timeoutArg[1]

\* async_timeout.timeout(timeout).__aenter__: the one timer of the call
TimeoutEnter(r, timeoutArg) ==
    [r EXCEPT !.timeoutArg = timeoutArg,
              !.timeout = EffectiveTimeout(timeoutArg),
              !.tstate = "enter",
              !.timerStarts = @ + 1]

\* mutant: the cancellation of the timer is not converted
TimeoutExitKeepsCancelled(tstate, e) == e

\* async_timeout's __aexit__: a CancelledError leaving the block after the
\* timer fired becomes asyncio.TimeoutError; anything else passes
TimeoutExit(tstate, e) ==
    IF e.type = "CancelledError" /\ tstate = "timeout"
    THEN AsyncioTimeoutError
    ELSE e

\* except asyncio.TimeoutError as e: raise ProxyTimeoutError(...) from e
ConnectExcept(e, timeout) ==
    IF IsAsyncioTimeoutError(e) THEN ProxyTimeoutError(timeout) ELSE e

\* an exception leaves _connect: through the timeout block, then through the
\* except clause of connect, to the caller
Leave(r, e) ==
    [r EXCEPT !.pc = "done",
              !.mustCancel = FALSE,
              !.pending = NoExc,
              !.tstate = IF r.tstate = "timeout" THEN "timeout" ELSE "exit",
              !.raised = ConnectExcept(TimeoutExit(r.tstate, e), r.timeout)]

\* mutant: the stream is closed before the socket is returned
ReturnAfterClose(r) ==
    [r EXCEPT !.pc = "done",
              !.tstate = IF r.tstate = "timeout" THEN "timeout" ELSE "exit",
              !.closes = @ + 1,
              !.stream = "closed",
              !.returned = r.socket]

\* return _socket: the block is left without an exception
Return(r) ==
    [r EXCEPT !.pc = "done",
              !.tstate = IF r.tstate = "timeout" THEN "timeout" ELSE "exit",
              !.returned = r.socket]

(* ------------------------- AsyncioProxy._connect ---------------------- *)

\* mutant: the supplied socket is ignored
NeedsDialAlways(socketArg) == TRUE

\* mutant: the test of the supplied socket is inverted
NeedsDialInverted(socketArg) == socketArg # NoSocket

\* if _socket is None
NeedsDial(socketArg) == socketArg = NoSocket

\* await connect_tcp(host=self._proxy_host, port=self._proxy_port, ...)
\* mutant: the dial goes to the destination instead of the proxy
StartDialToDestination(r) ==
    [r EXCEPT !.dials = @ + 1,
              !.dialTarget = <<"dest.example", 443>>,
              !.pc = "dialing"]

StartDial(r) ==
    [r EXCEPT !.dials = @ + 1,
              !.dialTarget = <<self.proxy_host, self.proxy_port>>,
              !.pc = "dialing"]

\* mutant: except OSError dropped, the failure of the dial passes untranslated
DialExceptUntranslated(e) == e

\* mutant: except Exception in place of except OSError
DialExceptCatchAll(e) ==
    IF e.type # "CancelledError" \/ env.py < 38
    THEN ProxyConnectionError(e.code,
            CouldNotConnectMsg(self.proxy_host, self.proxy_port, e.msg))
    ELSE e

\* except OSError as e: raise ProxyConnectionError(e.errno, msg) from e
DialExcept(e) ==
    IF IsOSError(e)
    THEN ProxyConnectionError(e.code,
            CouldNotConnectMsg(self.proxy_host, self.proxy_port, e.msg))
    ELSE e

\* await stream.close()
StreamClose(r, toRaise) ==
    [r EXCEPT !.closes = @ + 1,
              !.stream = "closed",
              !.pending = toRaise,
              !.pc = "closing"]

\* mutant: the last except clause re-raises without closing the stream
HandshakeExceptNoCleanup(r, e) ==
    IF e.type = "CancelledError"
    THEN IF can_be_closed_safely THEN StreamClose(r, e) ELSE Leave(r, e)
    ELSE IF e.type = "ReplyError"
         THEN StreamClose(r, ProxyError(e, e.code))
         ELSE Leave(r, e)

\* mutant: the last except clause closes the stream and forgets to re-raise
HandshakeExceptDropsFailure(r, e) ==
    IF e.type = "CancelledError"
    THEN IF can_be_closed_safely THEN StreamClose(r, e) ELSE Leave(r, e)
    ELSE IF e.type = "ReplyError"
         THEN StreamClose(r, ProxyError(e, e.code))
         ELSE StreamClose(r, NoExc)

\* mutant: a handshake that failed with a socket error is attempted once more
HandshakeExceptRetries(r, e) ==
    IF e.type = "CancelledError"
    THEN IF can_be_closed_safely THEN StreamClose(r, e) ELSE Leave(r, e)
    ELSE IF e.type = "ReplyError"
         THEN StreamClose(r, ProxyError(e, e.code))
         ELSE IF r.handshakes = 1
              THEN [r EXCEPT !.handshakes = @ + 1, !.pc = "handshaking"]
              ELSE StreamClose(r, e)

\* mutant: where the stream cannot be closed safely the cancellation is
\* swallowed and the handshake is awaited further
HandshakeExceptSwallowsCancel(r, e) ==
    IF e.type = "CancelledError"
    THEN IF can_be_closed_safely THEN StreamClose(r, e) ELSE r
    ELSE IF e.type = "ReplyError"
         THEN StreamClose(r, ProxyError(e, e.code))
         ELSE StreamClose(r, e)

\* the except clauses of the try around create_connector and connector.connect
HandshakeExcept(r, e) ==
    IF e.type = "CancelledError"
    THEN IF can_be_closed_safely THEN StreamClose(r, e) ELSE Leave(r, e)
    ELSE IF e.type = "ReplyError"
         THEN StreamClose(r, ProxyError(e, e.code))
         ELSE StreamClose(r, e)

\* stream = AsyncioSocketStream(sock=_socket, loop=self._loop)
WrapStream(r) ==
    [r EXCEPT !.stream = "open"]

\* create_connector(proxy_type=...): the factory knows the proxy types and
\* rejects any other value
CreateConnectorFails(ptype) == ptype \notin {"SOCKS4", "SOCKS5", "HTTP"}

InvalidProxyType ==
    [type |-> "ValueError", code |-> 0, msg |-> "Invalid proxy type"]

\* connector = create_connector(...); await connector.connect(stream=...)
StartHandshake(r) ==
    IF CreateConnectorFails(self.proxy_type)
    THEN HandshakeExcept(r, InvalidProxyType)
    ELSE [r EXCEPT !.handshakes = @ + 1,
                   !.resolver = self.resolver,
                   !.pc = "handshaking"]

(* ------------------------------ scheduling ---------------------------- *)

\* the awaits at which the task of a call can be suspended
Suspended == {"dialing", "handshaking", "closing"}

\* a timer of a timeout <= 0 is scheduled with call_soon when the block is
\* entered: it runs before anything can wake the suspended task
TimerRan(r) == r.timeout > 0 \/ r.tstate # "enter"

\* the awaited I/O can wake the task: no cancellation is pending
IoReady(r) ==
    /\ ~r.mustCancel
    /\ TimerRan(r)

\* await stream.close() either suspends the task until the close is done or
\* returns at once, as the Stream chooses: the records the task can be left in
AwaitClose(r) ==
    IF r.pc = "closing" THEN {r, Leave(r, r.pending)} ELSE {r}

(* ------------------------------- actions ------------------------------ *)

\* connect(dest_host, dest_port, timeout, _socket) runs up to its first await
Connect(c) ==
    /\ call[c].pc = "idle"
    /\ \E timeoutArg \in env.timeouts, socketArg \in SocketArgs(c) :
         LET r == [TimeoutEnter(call[c], timeoutArg) EXCEPT
                      !.socket = socketArg,
                      !.supplied = socketArg # NoSocket] IN
         \E next \in AwaitClose(IF NeedsDial(socketArg)
                                  THEN StartDial(r)
                                  ELSE StartHandshake(WrapStream(r))) :
            call' = [call EXCEPT ![c] = next]
    /\ UNCHANGED <<self, env>>

\* connect_tcp returns a connected socket
DialOK(c) ==
    /\ call[c].pc = "dialing"
    /\ IoReady(call[c])
    /\ \E next \in AwaitClose(StartHandshake(WrapStream(
                [call[c] EXCEPT !.socket = [origin |-> "dialed", owner |-> c]]))) :
         call' = [call EXCEPT ![c] = next]
    /\ UNCHANGED <<self, env>>

\* connect_tcp raises
DialFail(c) ==
    /\ call[c].pc = "dialing"
    /\ IoReady(call[c])
    /\ \E e \in env.dialFailures :
         call' = [call EXCEPT ![c] =
                    Leave([@ EXCEPT !.dialExc = e], DialExcept(e))]
    /\ UNCHANGED <<self, env>>

\* connector.connect returns
HandshakeOK(c) ==
    /\ call[c].pc = "handshaking"
    /\ IoReady(call[c])
    /\ call' = [call EXCEPT ![c] = Return(@)]
    /\ UNCHANGED <<self, env>>

\* connector.connect raises
HandshakeFail(c) ==
    /\ call[c].pc = "handshaking"
    /\ IoReady(call[c])
    /\ \E e \in env.handshakeFailures :
         \E next \in AwaitClose(HandshakeExcept([call[c] EXCEPT !.hsExc = e], e)) :
            call' = [call EXCEPT ![c] = next]
    /\ UNCHANGED <<self, env>>

\* stream.close() returns and the handler raises
CloseDone(c) ==
    /\ call[c].pc = "closing"
    /\ IoReady(call[c])
    /\ call' = [call EXCEPT ![c] = Leave(@, @.pending)]
    /\ UNCHANGED <<self, env>>

\* mutant: one timer kept on the proxy, whose expiry cancels every call in flight
DeadlineFiresShared(c) ==
    /\ call[c].pc \in Suspended
    /\ call[c].tstate = "enter"
    /\ call' = [d \in DOMAIN call |->
                  IF call[d].pc \in Suspended /\ call[d].tstate = "enter"
                  THEN [call[d] EXCEPT !.tstate = "timeout",
                                       !.mustCancel = TRUE,
                                       !.expiredIn = call[d].pc]
                  ELSE call[d]]
    /\ UNCHANGED <<self, env>>

\* the timer of async_timeout fires: task.cancel() and state TIMEOUT
DeadlineFires(c) ==
    /\ call[c].pc \in Suspended
    /\ call[c].tstate = "enter"
    /\ call' = [call EXCEPT ![c] =
                  [@ EXCEPT !.tstate = "timeout",
                            !.mustCancel = TRUE,
                            !.expiredIn = call[c].pc]]
    /\ UNCHANGED <<self, env>>

\* the caller cancels the task that runs connect()
CallerCancel(c) ==
    /\ call[c].pc \in Suspended
    /\ ~call[c].callerCancelled
    /\ call' = [call EXCEPT ![c] =
                  [@ EXCEPT !.mustCancel = TRUE,
                            !.callerCancelled = TRUE,
                            !.cancelledIn = call[c].pc,
                            !.cancelAfterExpiry = call[c].tstate = "timeout"]]
    /\ UNCHANGED <<self, env>>

\* the task wakes with CancelledError thrown at the await it is suspended in
DeliverCancel(c) ==
    /\ call[c].pc \in Suspended
    /\ call[c].mustCancel
    /\ TimerRan(call[c])
    /\ LET r == [call[c] EXCEPT !.mustCancel = FALSE] IN
       \E next \in (IF r.pc = "dialing"
                    THEN {Leave(r, DialExcept(CancelledError))}
                    ELSE IF r.pc = "handshaking"
                    THEN AwaitClose(HandshakeExcept(r, CancelledError))
                    ELSE {Leave(r, CancelledError)}) :
          call' = [call EXCEPT ![c] = next]
    /\ UNCHANGED <<self, env>>

Next ==
    \E c \in 1..NumCalls :
        \/ Connect(c)
        \/ DialOK(c)
        \/ DialFail(c)
        \/ HandshakeOK(c)
        \/ HandshakeFail(c)
        \/ CloseDone(c)
        \/ DeadlineFires(c)
        \/ CallerCancel(c)
        \/ DeliverCancel(c)

Spec == Init /\ [][Next]_vars

\* the environments that decide how a call ends: a loop whose stream is closed
\* on cancellation (3.8) and one where it is not (3.7 on a selector loop),
\* every timeout argument, one failure of each kind
InitLive ==
    /\ env \in [py : {37, 38}, loop : {"SelectorEventLoop"},
                 timeouts : {TimeoutArgs},
                 dialFailures : {{e \in DialFailures : e.code = 111}},
                 handshakeFailures :
                     {{e \in HandshakeFailures : e.code \in {5, 104}}}]
    /\ self \in {NewProxy(t) : t \in ProxyTypes}
    /\ call = [c \in 1..NumCalls |-> IdleCall]

\* the event loop runs the timer of every call when it is due, wakes a task
\* whose cancellation was requested, and a stream.close() under way completes;
\* a dial or a handshake need never complete
SpecLive ==
    /\ InitLive
    /\ [][Next]_vars
    /\ \A c \in 1..NumCalls :
          /\ WF_vars(DeadlineFires(c))
          /\ WF_vars(DeliverCancel(c))
          /\ WF_vars(CloseDone(c))

\* the read-only properties of the proxy
proxy_host == self.proxy_host

proxy_port == self.proxy_port

NextConcurrent ==
    \E c \in 1..NumConcurrent :
        \/ Connect(c)
        \/ DialOK(c)
        \/ DialFail(c)
        \/ HandshakeOK(c)
        \/ HandshakeFail(c)
        \/ CloseDone(c)
        \/ DeadlineFires(c)
        \/ CallerCancel(c)
        \/ DeliverCancel(c)

SpecConcurrent == InitConcurrent /\ [][NextConcurrent]_vars

(* ------------------------------- claims ------------------------------- *)

Done(c) == call[c].pc = "done"

Succeeded(c) == Done(c) /\ call[c].returned # NoSocket

Failed(c) == Done(c) /\ call[c].raised # NoExc

\* the handshake was started and neither returned nor raised: it was cancelled
HandshakeCancelled(c) ==
    /\ Done(c)
    /\ call[c].handshakes = 1
    /\ call[c].hsExc = NoExc
    /\ call[c].returned = NoSocket

\* the message of the TimeoutError that names the bound of the call
TimedOutMsg(c) ==
    IF call[c].timeoutArg = <<>> THEN "Proxy connection timed out: 60"
    ELSE IF call[c].timeoutArg = <<5>> THEN "Proxy connection timed out: 5"
    ELSE IF call[c].timeoutArg = <<-1>> THEN "Proxy connection timed out: -1"
    ELSE "Proxy connection timed out: 0"

\* C1: a connect that returns a transport made one dial (none when the
\* transport was supplied) and one handshake, and never closed the Stream
C1_SuccessDialsHandshakesCloses ==
    \A c \in Calls :
        Succeeded(c) =>
            /\ call[c].dials = (IF call[c].supplied THEN 0 ELSE 1)
            /\ call[c].handshakes = 1
            /\ call[c].closes = 0
            /\ call[c].stream = "open"
            /\ call[c].raised = NoExc

C1_Witness ==
    \E c \in Calls :
        Succeeded(c) /\ ~call[c].supplied /\ call[c].dials = 1

\* C2 as stated: every failed connect closed the transport exactly once, every
\* successful one never
C2_Original ==
    \A c \in Calls :
        /\ Succeeded(c) => call[c].closes = 0
        /\ Failed(c) => call[c].closes = 1

\* C2 amended: close is invoked at most once; exactly once after every failure
\* of the handshake and on every failure path with a wrapped Stream, except a
\* cancellation of the handshake on a loop that cannot be closed safely (zero
\* times); zero times when no Stream was wrapped, and zero times on success
C2_CloseCount ==
    \A c \in Calls :
        /\ call[c].closes <= 1
        /\ call[c].hsExc # NoExc => call[c].closes = 1
        /\ Succeeded(c) => call[c].closes = 0
        /\ Failed(c) =>
             call[c].closes =
                IF call[c].stream = "none" THEN 0
                ELSE IF HandshakeCancelled(c) /\ ~can_be_closed_safely THEN 0
                ELSE 1

C2_Witness ==
    \E c \in Calls :
        /\ Failed(c)
        /\ call[c].hsExc.type = "ConnectionResetError"
        /\ call[c].closes = 1

\* C3 as stated: after ReplyError(code) the connect always ends with
\* ProxyError(code), the Stream closed
C3_Original ==
    \A c \in Calls :
        Done(c) /\ call[c].hsExc.type = "ReplyError" =>
            /\ call[c].closes = 1
            /\ call[c].raised.type = "ProxyError"
            /\ call[c].raised.code = call[c].hsExc.code

\* C3 amended: after ReplyError(code) the Stream is closed once, and the
\* connect ends with ProxyError(code) unless the deadline expires or the caller
\* cancels while the close is awaited: then with TimeoutError (deadline) or
\* with the cancellation (caller, deadline not expired); never with success
C3_ReplyErrorOutcome ==
    \A c \in Calls :
        call[c].hsExc.type = "ReplyError" =>
            /\ call[c].closes = 1
            /\ Done(c) =>
                 /\ call[c].returned = NoSocket
                 /\ call[c].raised =
                      IF call[c].expiredIn # "none"
                      THEN [type |-> "ProxyTimeoutError", code |-> 0,
                            msg |-> TimedOutMsg(c)]
                      ELSE IF call[c].callerCancelled
                      THEN CancelledError
                      ELSE [type |-> "ProxyError",
                            code |-> call[c].hsExc.code,
                            msg |-> call[c].hsExc.msg]

C3_Witness ==
    \E c \in Calls :
        /\ Done(c)
        /\ call[c].hsExc = ReplyError(5)
        /\ call[c].raised.type = "ProxyError"
        /\ call[c].raised.code = 5

\* the message of the ConnectionError for the proxy of the model
DialFailedMsg(e) ==
    IF e.code = 111
    THEN "Could not connect to proxy proxy.example:1080 [Connect call failed]"
    ELSE "Could not connect to proxy proxy.example:1080 [Connection timed out]"

\* C4: a failed dial ends the connect with ConnectionError carrying the proxy
\* host and port and the code and message of the failure; no handshake was
\* invoked and no Stream closed
C4_DialFailure ==
    \A c \in Calls :
        call[c].dialExc # NoExc =>
            /\ Done(c)
            /\ ~call[c].supplied
            /\ call[c].raised = [type |-> "ProxyConnectionError",
                                 code |-> call[c].dialExc.code,
                                 msg |-> DialFailedMsg(call[c].dialExc)]
            /\ call[c].returned = NoSocket
            /\ call[c].handshakes = 0
            /\ call[c].closes = 0
            /\ call[c].stream = "none"

C4_Witness ==
    \E c \in Calls :
        /\ call[c].dialExc.type = "ConnectionRefusedError"
        /\ call[c].raised.type = "ProxyConnectionError"
        /\ call[c].raised.code = 111

\* C5: a deadline that expires during the dial or the handshake cancels it,
\* the Stream is closed if the loop can be closed safely, and the connect ends
\* with the TimeoutError that names the bound; the timer is started once
C5_DeadlineExpiry ==
    \A c \in Calls :
        /\ call[c].pc # "idle" => call[c].timerStarts = 1
        /\ call[c].expiredIn \in {"dialing", "handshaking"} =>
             /\ call[c].dialExc = NoExc
             /\ call[c].hsExc = NoExc
             /\ call[c].expiredIn = "dialing" => call[c].handshakes = 0
             /\ Done(c) =>
                  /\ call[c].returned = NoSocket
                  /\ call[c].raised = [type |-> "ProxyTimeoutError", code |-> 0,
                                       msg |-> TimedOutMsg(c)]
                  /\ call[c].closes =
                       IF call[c].expiredIn = "handshaking" /\ can_be_closed_safely
                       THEN 1 ELSE 0

C5_Witness ==
    \E c \in Calls :
        /\ Done(c)
        /\ call[c].expiredIn = "handshaking"
        /\ call[c].dials = 1
        /\ call[c].closes = 1
        /\ call[c].raised.type = "ProxyTimeoutError"

\* C6: a deadline that expires while the connect is dialing ends it with
\* TimeoutError; the handshake is never invoked and the call is left holding
\* no transport and no open Stream
C6_DeadlineWhileDialing ==
    \A c \in Calls :
        call[c].expiredIn = "dialing" =>
            /\ call[c].pc \in {"dialing", "done"}
            /\ call[c].handshakes = 0
            /\ call[c].socket = NoSocket
            /\ call[c].stream = "none"
            /\ Done(c) =>
                 /\ call[c].raised.type = "ProxyTimeoutError"
                 /\ call[c].returned = NoSocket

C6_Witness ==
    \E c \in Calls :
        /\ Done(c)
        /\ call[c].expiredIn = "dialing"
        /\ call[c].dials = 1
        /\ call[c].raised.type = "ProxyTimeoutError"

\* C7 as stated: a connect cancelled by the caller while the handshake is in
\* flight (the deadline not expired at that time) ends with the cancellation,
\* the Stream closed exactly when the loop can be closed safely
C7_Original ==
    \A c \in Calls :
        Done(c) /\ call[c].cancelledIn = "handshaking"
                /\ ~call[c].cancelAfterExpiry =>
            /\ call[c].raised = CancelledError
            /\ call[c].returned = NoSocket
            /\ call[c].closes = (IF can_be_closed_safely THEN 1 ELSE 0)

\* C8 as stated: with a supplied transport there is no dial and exactly one
\* handshake on every path, and success returns the supplied transport
C8_Original ==
    \A c \in Calls :
        Done(c) /\ call[c].supplied =>
            /\ call[c].dials = 0
            /\ call[c].handshakes = 1
            /\ Succeeded(c) =>
                 call[c].returned = [origin |-> "supplied", owner |-> c]

\* C8 amended: with a supplied transport there is no dial on any path; the
\* handshake is invoked exactly once, unless building the Connector fails (the
\* factory rejects the proxy type): then it is invoked zero times and the
\* supplied transport is closed; success returns the supplied transport
C8_SuppliedTransport ==
    \A c \in Calls :
        call[c].pc # "idle" /\ call[c].supplied =>
            /\ call[c].dials = 0
            /\ call[c].dialTarget = <<>>
            /\ call[c].pc # "dialing"
            /\ call[c].handshakes = (IF self.proxy_type = "invalid" THEN 0 ELSE 1)
            /\ self.proxy_type = "invalid" =>
                 call[c].closes = 1 /\ ~Succeeded(c)
            /\ Succeeded(c) =>
                 call[c].returned = [origin |-> "supplied", owner |-> c]

C8_Witness ==
    \E c \in Calls :
        /\ Succeeded(c)
        /\ call[c].supplied
        /\ call[c].dials = 0
        /\ call[c].handshakes = 1
        /\ call[c].returned.origin = "supplied"

\* the failure of the handshake, or of building the Connector, that is
\* neither a reply error nor a cancellation
OtherFailure(c) ==
    IF call[c].hsExc # NoExc /\ call[c].hsExc.type # "ReplyError"
    THEN call[c].hsExc
    ELSE IF self.proxy_type = "invalid" /\ call[c].stream # "none"
    THEN InvalidProxyType
    ELSE NoExc

\* C9 as stated, for the connects whose deadline did not expire and that the
\* caller did not cancel: after such a failure the Stream is closed and the
\* caller receives that same failure
C9_Original ==
    \A c \in Calls :
        /\ Done(c)
        /\ OtherFailure(c) # NoExc
        /\ call[c].expiredIn = "none"
        /\ ~call[c].callerCancelled
        => /\ call[c].closes = 1
           /\ call[c].raised = OtherFailure(c)

\* C10 as stated: a connect ends with TimeoutError only if its deadline expired
C10_Original ==
    \A c \in Calls :
        Done(c) /\ call[c].raised.type = "ProxyTimeoutError" =>
            call[c].expiredIn # "none"

\* a failure happened in the call: the dial or the handshake failed, the
\* Connector could not be built, the deadline expired or the caller cancelled
FailureHappened(c) ==
    \/ call[c].dialExc # NoExc
    \/ call[c].hsExc # NoExc
    \/ self.proxy_type = "invalid" /\ call[c].stream # "none"
    \/ call[c].expiredIn # "none"
    \/ call[c].callerCancelled

\* C11: no failure is swallowed: a connect in which a failure happened never
\* returns a transport and ends with one error, which is a ConnectionError, a
\* TimeoutError, a ProxyError or the failure itself; nothing is surfaced
\* before the connect ends, and never both a transport and an error
C11_NoFailureSwallowed ==
    \A c \in Calls :
        /\ ~Done(c) => call[c].raised = NoExc /\ call[c].returned = NoSocket
        /\ Done(c) => (call[c].raised = NoExc) # (call[c].returned = NoSocket)
        /\ FailureHappened(c) =>
             /\ call[c].returned = NoSocket
             /\ Done(c) =>
                  \/ call[c].raised.type \in
                        {"ProxyConnectionError", "ProxyTimeoutError", "ProxyError"}
                  \/ call[c].raised.type # "none"
                       /\ call[c].raised \in
                            {call[c].hsExc, InvalidProxyType, CancelledError}

C11_Witness ==
    \E c \in Calls :
        /\ Done(c)
        /\ call[c].hsExc.type = "ConnectionResetError"
        /\ call[c].raised = call[c].hsExc
        /\ call[c].returned = NoSocket

\* C12: no retries: a call dials exactly once (never with a supplied
\* transport) and starts at most one handshake, and after a failure, or once
\* it has ended, it neither dials nor starts a handshake again
C12_NoRetries ==
    /\ [](\A c \in Calls :
            /\ call[c].dials <= 1
            /\ call[c].handshakes <= 1
            /\ call[c].pc # "idle" =>
                 call[c].dials = (IF call[c].supplied THEN 0 ELSE 1))
    /\ [][\A c \in Calls :
            FailureHappened(c) \/ Done(c) =>
                /\ call'[c].dials = call[c].dials
                /\ call'[c].handshakes = call[c].handshakes]_vars

C12_Witness ==
    \E c \in Calls :
        /\ Failed(c)
        /\ call[c].hsExc.type = "TimeoutError"
        /\ call[c].dials = 1
        /\ call[c].handshakes = 1

Rank(pc) ==
    IF pc = "idle" THEN 0
    ELSE IF pc = "dialing" THEN 1
    ELSE IF pc = "handshaking" THEN 2
    ELSE IF pc = "closing" THEN 3
    ELSE 4

\* C14: a call only moves forward along Idle, Dialing, Handshaking, end
\* (Dialing only without a supplied transport); the handshake starts only on a
\* transport that was supplied or that the dial returned; the Stream is never
\* closed before it is wrapped, never while dialing; a transport is returned
\* only out of Handshaking; a call that has ended does nothing more
C14_StateOrder ==
    /\ [](\A c \in Calls :
            /\ call[c].pc = "idle" =>
                 call[c].dials = 0 /\ call[c].handshakes = 0 /\ call[c].closes = 0
            /\ call[c].pc = "dialing" =>
                 /\ ~call[c].supplied
                 /\ call[c].socket = NoSocket
                 /\ call[c].stream = "none"
                 /\ call[c].handshakes = 0
                 /\ call[c].closes = 0
            /\ call[c].handshakes >= 1 =>
                 /\ call[c].socket # NoSocket
                 /\ call[c].stream # "none"
                 /\ call[c].supplied \/ (call[c].dials = 1 /\ call[c].dialExc = NoExc)
            /\ call[c].closes >= 1 =>
                 call[c].socket # NoSocket /\ call[c].stream = "closed")
    /\ [][\A c \in Calls :
            /\ call'[c].pc # call[c].pc => Rank(call'[c].pc) > Rank(call[c].pc)
            /\ call'[c].handshakes > call[c].handshakes =>
                 /\ call'[c].pc = "handshaking"
                 /\ \/ call[c].pc = "idle" /\ call'[c].supplied
                    \/ call[c].pc = "dialing"
            /\ call'[c].returned # call[c].returned => call[c].pc = "handshaking"
            /\ Done(c) => call'[c] = call[c]]_vars

C14_Witness ==
    \E c \in Calls :
        /\ Done(c)
        /\ call[c].dials = 1
        /\ call[c].handshakes = 1
        /\ call[c].closes = 1
        /\ call[c].raised.type = "ProxyError"

\* C15 as stated: a connect the caller cancelled before its deadline expired
\* ends with the cancellation, also when the deadline expires afterwards; a
\* connect whose deadline expired first ends with TimeoutError
C15_Original ==
    \A c \in Calls :
        Done(c) =>
            /\ call[c].callerCancelled /\ ~call[c].cancelAfterExpiry =>
                 call[c].raised = CancelledError
            /\ call[c].expiredIn # "none"
                 /\ (call[c].callerCancelled => call[c].cancelAfterExpiry) =>
                 call[c].raised.type = "ProxyTimeoutError"

\* the loop of the proxy can close a socket whose operation is being cancelled
SafeToAbort ==
    \/ env.py >= 38
    \/ env.loop \in {"ProactorEventLoop", "uvloop.Loop"}

\* C16 as stated: a cancellation by the caller once a transport exists closes
\* it where it is safe to abort, and a failed connect leaves a transport open
\* only after a cancellation by the caller where it is not safe to abort
C16_Original ==
    \A c \in Calls :
        Done(c) =>
            /\ call[c].cancelledIn \in {"handshaking", "closing"} /\ SafeToAbort =>
                 call[c].closes = 1
            /\ Failed(c) /\ call[c].stream = "open" =>
                 call[c].callerCancelled /\ ~SafeToAbort

\* C16 amended: a cancellation by the caller once a transport exists closes
\* it where it is safe to abort and leaves it open where it is not; a failed
\* connect leaves a transport open exactly when its handshake was cancelled,
\* by the caller or by the deadline, where it is not safe to abort
C16_LeakOnlyOnUnsafeCancel ==
    \A c \in Calls :
        Done(c) =>
            /\ call[c].cancelledIn \in {"handshaking", "closing"} /\ SafeToAbort =>
                 call[c].closes = 1 /\ call[c].stream = "closed"
            /\ call[c].cancelledIn = "handshaking" /\ ~SafeToAbort =>
                 call[c].closes = 0 /\ call[c].stream = "open"
            /\ (Failed(c) /\ call[c].stream = "open") <=>
                 /\ ~SafeToAbort
                 /\ call[c].handshakes = 1
                 /\ call[c].hsExc = NoExc
                 /\ "handshaking" \in {call[c].cancelledIn, call[c].expiredIn}

C16_Witness ==
    \E c \in Calls :
        /\ Done(c)
        /\ call[c].cancelledIn = "handshaking"
        /\ ~SafeToAbort
        /\ call[c].stream = "open"
        /\ call[c].raised = CancelledError

\* C17: concurrent calls are independent: every Connector is given the one
\* Resolver made at construction, no two calls hold the same transport, and a
\* step of one call (its failure, timeout or cancellation included) leaves the
\* transport, the Stream, the deadline and the outcome of every other call as
\* they were
C17_ConcurrentCallsIndependent ==
    /\ [](\A c1, c2 \in Calls :
            /\ call[c1].handshakes >= 1 => call[c1].resolver = "resolver1"
            /\ call[c1].resolver \in {"none", self.resolver}
            /\ c1 # c2 /\ call[c1].socket # NoSocket =>
                 call[c1].socket # call[c2].socket)
    /\ [][\A c1, c2 \in Calls :
            c1 # c2 => call'[c1] = call[c1] \/ call'[c2] = call[c2]]_vars

C17_Witness ==
    \E c1, c2 \in Calls :
        /\ c1 # c2
        /\ Failed(c1)
        /\ call[c1].raised.type = "ProxyTimeoutError"
        /\ call[c1].closes = 1
        /\ Succeeded(c2)
        /\ call[c2].stream = "open"
        /\ call[c2].resolver = call[c1].resolver

\* C18: every connect that was started ends, also when its dial or its
\* handshake never completes: with the timer firing and the close completing,
\* no call stays in Dialing, Handshaking or the cleanup for ever
C18_Terminates ==
    \A c \in 1..NumCalls :
        (call[c].pc # "idle") ~> Done(c)

C18_Witness ==
    \E c \in Calls :
        /\ Done(c)
        /\ call[c].expiredIn = "handshaking"
        /\ call[c].hsExc = NoExc
        /\ ~call[c].callerCancelled
        /\ call[c].returned = NoSocket

\* C19: connect leaves the configuration of the proxy alone: whatever calls
\* were made and however they ended, each field still has the value given at
\* construction, proxy_host and proxy_port return those values, and every
\* dial made went to that host and port
C19_ConfigurationUnchanged ==
    /\ [](/\ self = NewProxy(self.proxy_type)
          /\ proxy_host = "proxy.example"
          /\ proxy_port = 1080
          /\ \A c \in Calls :
                call[c].dials >= 1 =>
                    call[c].dialTarget = <<"proxy.example", 1080>>)
    /\ [][self' = self]_vars

C19_Witness ==
    \E c \in Calls :
        /\ Done(c)
        /\ call[c].dials = 1
        /\ call[c].dialTarget = <<proxy_host, proxy_port>>
        /\ call[c].hsExc.type = "ConnectionResetError"
        /\ self = NewProxy("SOCKS5")

====
